---- MODULE Spec2Model ----
(***************************************************************************)
(* Model of analysis.py: the entry point runs fetch_eia_data (one HTTP     *)
(* request per series, fail-fast), then process_data_to_dataframe (one     *)
(* frame per non-empty series, pd.concat(axis=1), sort_index, fillna(0)),  *)
(* then plot_generation_trends.                                            *)
(*                                                                         *)
(* A dict is a sequence of [name, data] pairs in insertion order.          *)
(* A DataFrame is [index, columns, rows]: index a sequence of row labels,  *)
(* columns a sequence of names, rows[i][j] the cell of row i, column j.    *)
(* A cell or a generation value is [kind, v]: kind "num" is a number,      *)
(* "str" the string of decimal digits of v, "null" JSON null (None),       *)
(* "nan" the NaN that reindexing puts where a frame has no row.            *)
(* Periods are year labels of one type, ordered as the years they name.    *)
(* An uncaught exception is recorded in error, named by what raised it.    *)
(***************************************************************************)
EXTENDS Integers, Sequences, FiniteSets

VARIABLES series_to_fetch, pc, all_data, requests, responses, sleeps,
          raw_energy_data, final_dataframe, error, plot_calls

vars == <<series_to_fetch, pc, all_data, requests, responses, sleeps,
          raw_energy_data, final_dataframe, error, plot_calls>>

\* ----------------------------------------------------------------- bounds
MaxSeries == 2
MaxRecords == 3

\* ------------------------------------------------------------ input space
AllNames == <<"Solar", "Wind", "Hydroelectric", "Geothermal", "Biomass">>

Periods == {2020, 2021}

Num(n) == [kind |-> "num", v |-> n]
Str(n) == [kind |-> "str", v |-> n]
Null == [kind |-> "null", v |-> 0]
NaN == [kind |-> "nan", v |-> 0]

Generations == {Num(3), Num(5), Num(7), Str(5), Null}

Records == [period : Periods, generation : Generations]

Statuses == {200, 404, 500}

SeqsUpTo(S, n) == UNION {[1..k -> S] : k \in 0..n}

RECURSIVE TotalRecords(_)
TotalRecords(d) ==
    IF d = <<>> THEN 0 ELSE Len(Head(d).data) + TotalRecords(Tail(d))

\* ---------------------------------------------------------------- helpers
Keys(d) == [k \in 1..Len(d) |-> d[k].name]

IsUnique(s) == \A a, b \in 1..Len(s) : a # b => s[a] # s[b]

Contains(s, x) == \E k \in 1..Len(s) : s[k] = x

IndexOf(s, x) == CHOOSE k \in 1..Len(s) : s[k] = x

RECURSIVE Flatten(_)
Flatten(ss) == IF ss = <<>> THEN <<>> ELSE Head(ss) \o Flatten(Tail(ss))

RECURSIVE UniqueInOrder(_, _)
UniqueInOrder(s, seen) ==
    IF s = <<>> THEN <<>>
    ELSE IF Head(s) \in seen THEN UniqueInOrder(Tail(s), seen)
    ELSE <<Head(s)>> \o UniqueInOrder(Tail(s), seen \cup {Head(s)})

IsNa(c) == c.kind \in {"null", "nan"}

\* ------------------------------------------- process_data_to_dataframe
\* pd.DataFrame(data_list)[['period','generation']].set_index('period')
\*   .rename(columns={'generation': series_name})
TempDf(series_name, data_list) ==
    [index |-> [k \in 1..Len(data_list) |-> data_list[k].period],
     columns |-> <<series_name>>,
     rows |-> [k \in 1..Len(data_list) |-> <<data_list[k].generation>>]]

\* variant: the emptiness test is dropped, so every series gets a frame
NonEmptyNoSkip(item) == item.data = item.data

NonEmpty(item) == item.data # <<>>

\* the loop: empty record lists are skipped, the others appended in order
ProcessedSeriesList(raw_data) ==
    LET kept == SelectSeq(raw_data, NonEmpty)
    IN [k \in 1..Len(kept) |-> TempDf(kept[k].name, kept[k].data)]

\* variant: a left join on the first frame (join on its labels only)
CombinedIndexLeftJoin(frames) == frames[1].index

\* the row labels of pd.concat(axis=1): the shared index when all frames have
\* equal indexes, else the distinct labels in order of first appearance
CombinedIndex(frames) ==
    IF \A k \in 1..Len(frames) : frames[k].index = frames[1].index
    THEN frames[1].index
    ELSE UniqueInOrder(Flatten([k \in 1..Len(frames) |-> frames[k].index]), {})

NeedsReindex(frame, new_index) == frame.index # new_index

\* a frame's rows laid out on new_index; NaN where the frame has no such label
Reindex(frame, new_index) ==
    IF ~NeedsReindex(frame, new_index) THEN frame.rows
    ELSE [i \in 1..Len(new_index) |->
            IF Contains(frame.index, new_index[i])
            THEN frame.rows[IndexOf(frame.index, new_index[i])]
            ELSE [j \in 1..Len(frame.columns) |-> NaN]]

\* pd.concat of one or more frames: every frame is laid out on the combined
\* index; a frame that must be reindexed and has a repeated label raises
\* InvalidIndexError("Reindexing only valid with uniquely valued Index objects")
ConcatFrames(frames) ==
    LET new_index == CombinedIndex(frames)
    IN IF \E k \in 1..Len(frames) :
              NeedsReindex(frames[k], new_index) /\ ~IsUnique(frames[k].index)
       THEN [kind |-> "ReindexDuplicateLabels"]
       ELSE [kind |-> "frame",
             index |-> new_index,
             columns |-> Flatten([k \in 1..Len(frames) |-> frames[k].columns]),
             rows |-> [i \in 1..Len(new_index) |->
                         Flatten([k \in 1..Len(frames) |->
                                    Reindex(frames[k], new_index)[i]])]]

\* variant: concatenating nothing yields an empty frame instead of raising
ConcatEmptyIsFrame(frames) ==
    IF frames = <<>>
    THEN [kind |-> "frame", index |-> <<>>, columns |-> <<>>, rows |-> <<>>]
    ELSE ConcatFrames(frames)

\* pd.concat(processed_series_list, axis=1); an empty list raises
\* ValueError("No objects to concatenate")
Concat(frames) ==
    IF frames = <<>> THEN [kind |-> "NoObjectsToConcatenate"] ELSE ConcatFrames(frames)

IsMonotonicIncreasing(s) == \A a, b \in 1..Len(s) : a < b => s[a] <= s[b]

Permutations(n) ==
    {p \in [1..n -> 1..n] : \A a, b \in 1..n : a # b => p[a] # p[b]}

Take(df, p) ==
    [kind |-> "frame",
     index |-> [i \in 1..Len(df.index) |-> df.index[p[i]]],
     columns |-> df.columns,
     rows |-> [i \in 1..Len(df.index) |-> df.rows[p[i]]]]

\* final_df.sort_index(): a monotonic index is left as it is; otherwise the
\* rows are reordered by an argsort that is not stable, so rows with equal
\* labels may come out in any relative order
SortIndex(df) ==
    IF IsMonotonicIncreasing(df.index) THEN {df}
    ELSE {Take(df, p) : p \in {q \in Permutations(Len(df.index)) :
                 IsMonotonicIncreasing([i \in 1..Len(df.index) |-> df.index[q[i]]])}}

\* variant: the fill step is missing
FillnaMissing(df) == df

\* final_df.fillna(0, inplace=True): None and NaN become 0, nothing else changes
Fillna(df) ==
    [df EXCEPT !.rows = [i \in 1..Len(df.rows) |->
        [j \in 1..Len(df.columns) |->
            IF IsNa(df.rows[i][j]) THEN Num(0) ELSE df.rows[i][j]]]]

\* every outcome of process_data_to_dataframe(raw_data): a frame or an exception
ProcessDataToDataframe(raw_data) ==
    LET final_df == Concat(ProcessedSeriesList(raw_data))
    IN IF final_df.kind # "frame" THEN {final_df}
       ELSE {Fillna(s) : s \in SortIndex(final_df)}

\* ----------------------------------------------------------------- state
Unset == [kind |-> "unset"]

Init ==
    /\ series_to_fetch \in {SubSeq(AllNames, 1, n) : n \in 0..MaxSeries}
    /\ pc = "fetch"
    /\ all_data = <<>>
    /\ requests = <<>>
    /\ responses = <<>>
    /\ sleeps = 0
    /\ raw_energy_data = Unset
    /\ final_dataframe = Unset
    /\ error = "none"
    /\ plot_calls = 0

\* ------------------------------------------------------- fetch_eia_data
NextSeries == series_to_fetch[Len(all_data) + 1]

\* requests.get returned 200 and the body has response.data
RequestOk ==
    /\ pc = "fetch"
    /\ Len(all_data) < Len(series_to_fetch)
    /\ \E data \in SeqsUpTo(Records, MaxRecords - TotalRecords(all_data)) :
          all_data' = Append(all_data, [name |-> NextSeries, data |-> data])
    /\ requests' = Append(requests, NextSeries)
    /\ responses' = Append(responses, [status |-> 200, envelope |-> TRUE])
    /\ pc' = "sleep"
    /\ UNCHANGED <<series_to_fetch, sleeps, raw_energy_data, final_dataframe,
                   error, plot_calls>>

\* requests.get returned 200 but response.json()['response']['data'] raises
RequestMalformed ==
    /\ pc = "fetch"
    /\ Len(all_data) < Len(series_to_fetch)
    /\ requests' = Append(requests, NextSeries)
    /\ responses' = Append(responses, [status |-> 200, envelope |-> FALSE])
    /\ error' = "KeyError"
    /\ pc' = "crashed"
    /\ UNCHANGED <<series_to_fetch, all_data, sleeps, raw_energy_data,
                   final_dataframe, plot_calls>>

\* variant: on a failed request the series collected so far are returned
RequestFailedPartial ==
    /\ pc = "fetch"
    /\ Len(all_data) < Len(series_to_fetch)
    /\ requests' = Append(requests, NextSeries)
    /\ \E s \in Statuses \ {200} :
          responses' = Append(responses, [status |-> s, envelope |-> TRUE])
    /\ raw_energy_data' = [kind |-> "dict", data |-> all_data]
    /\ pc' = "main"
    /\ UNCHANGED <<series_to_fetch, all_data, sleeps, final_dataframe,
                   error, plot_calls>>

\* variant: a failed request is logged and the loop goes on with no data for it
RequestFailedContinue ==
    /\ pc = "fetch"
    /\ Len(all_data) < Len(series_to_fetch)
    /\ requests' = Append(requests, NextSeries)
    /\ \E s \in Statuses \ {200} :
          responses' = Append(responses, [status |-> s, envelope |-> TRUE])
    /\ all_data' = Append(all_data, [name |-> NextSeries, data |-> <<>>])
    /\ pc' = "sleep"
    /\ UNCHANGED <<series_to_fetch, sleeps, raw_energy_data, final_dataframe,
                   error, plot_calls>>

\* any other status: return None
RequestFailed ==
    /\ pc = "fetch"
    /\ Len(all_data) < Len(series_to_fetch)
    /\ requests' = Append(requests, NextSeries)
    /\ \E s \in Statuses \ {200} :
          responses' = Append(responses, [status |-> s, envelope |-> TRUE])
    /\ raw_energy_data' = [kind |-> "None"]
    /\ pc' = "main"
    /\ UNCHANGED <<series_to_fetch, all_data, sleeps, final_dataframe,
                   error, plot_calls>>

\* time.sleep(0.5), then the next iteration
Sleep ==
    /\ pc = "sleep"
    /\ sleeps' = sleeps + 1
    /\ pc' = "fetch"
    /\ UNCHANGED <<series_to_fetch, all_data, requests, responses,
                   raw_energy_data, final_dataframe, error, plot_calls>>

\* the loop is exhausted: return all_data
FetchReturn ==
    /\ pc = "fetch"
    /\ Len(all_data) = Len(series_to_fetch)
    /\ raw_energy_data' = [kind |-> "dict", data |-> all_data]
    /\ pc' = "main"
    /\ UNCHANGED <<series_to_fetch, all_data, requests, responses, sleeps,
                   final_dataframe, error, plot_calls>>

\* --------------------------------------------------------------- __main__
\* variant: `if raw_energy_data is not None:`
TruthyIsNotNone(x) == x.kind = "dict"

\* `if raw_energy_data:` None and the empty dict are both falsy
Truthy(x) == x.kind = "dict" /\ x.data # <<>>

MainSkip ==
    /\ pc = "main"
    /\ ~Truthy(raw_energy_data)
    /\ pc' = "done"
    /\ UNCHANGED <<series_to_fetch, all_data, requests, responses, sleeps,
                   raw_energy_data, final_dataframe, error, plot_calls>>

\* variant: the entry point processes whatever the fetch left behind
MainProcessUnguarded ==
    /\ pc = "main"
    /\ pc' = "process"
    /\ raw_energy_data' = [kind |-> "dict", data |-> all_data]
    /\ UNCHANGED <<series_to_fetch, all_data, requests, responses, sleeps,
                   final_dataframe, error, plot_calls>>

MainProcess ==
    /\ pc = "main"
    /\ Truthy(raw_energy_data)
    /\ pc' = "process"
    /\ UNCHANGED <<series_to_fetch, all_data, requests, responses, sleeps,
                   raw_energy_data, final_dataframe, error, plot_calls>>

\* final_dataframe = process_data_to_dataframe(raw_energy_data) returns
ProcessReturns ==
    /\ pc = "process"
    /\ \E r \in ProcessDataToDataframe(raw_energy_data.data) :
          /\ r.kind = "frame"
          /\ final_dataframe' = r
    /\ pc' = "plot"
    /\ UNCHANGED <<series_to_fetch, all_data, requests, responses, sleeps,
                   raw_energy_data, error, plot_calls>>

\* process_data_to_dataframe raises; nothing catches it
ProcessRaises ==
    /\ pc = "process"
    /\ \E r \in ProcessDataToDataframe(raw_energy_data.data) :
          /\ r.kind # "frame"
          /\ error' = r.kind
    /\ pc' = "crashed"
    /\ UNCHANGED <<series_to_fetch, all_data, requests, responses, sleeps,
                   raw_energy_data, final_dataframe, plot_calls>>

\* plot_generation_trends(final_dataframe) runs to the end
PlotSaved ==
    /\ pc = "plot"
    /\ plot_calls' = plot_calls + 1
    /\ pc' = "done"
    /\ UNCHANGED <<series_to_fetch, all_data, requests, responses, sleeps,
                   raw_energy_data, final_dataframe, error>>

\* plot_generation_trends raises (df.plot or plt.savefig); nothing catches it
PlotRaises ==
    /\ pc = "plot"
    /\ plot_calls' = plot_calls + 1
    /\ error' = "PlotError"
    /\ pc' = "crashed"
    /\ UNCHANGED <<series_to_fetch, all_data, requests, responses, sleeps,
                   raw_energy_data, final_dataframe>>

Next ==
    \/ RequestOk
    \/ RequestMalformed
    \/ RequestFailed
    \/ Sleep
    \/ FetchReturn
    \/ MainSkip
    \/ MainProcess
    \/ ProcessReturns
    \/ ProcessRaises
    \/ PlotSaved
    \/ PlotRaises

Spec == Init /\ [][Next]_vars

\* ------------------------------------------------------------ vocabulary
N == Len(series_to_fetch)

Succeeded(r) == r.status = 200 /\ r.envelope

HasTable == final_dataframe.kind = "frame"

\* the record list the fetch stored for a series
DataOf(series_name) ==
    raw_energy_data.data[IndexOf(Keys(raw_energy_data.data), series_name)].data

RecordsAt(series_name, p) ==
    {k \in 1..Len(DataOf(series_name)) : DataOf(series_name)[k].period = p}

RowsAt(p) ==
    {i \in 1..Len(final_dataframe.index) : final_dataframe.index[i] = p}

Cell(i, j) == final_dataframe.rows[i][j]

CellValues == Generations \cup {Num(0), NaN}

AllEmpty ==
    /\ raw_energy_data.kind = "dict"
    /\ \A k \in 1..Len(raw_energy_data.data) : raw_energy_data.data[k].data = <<>>

\* ------------------------------------------------------------------ C1
\* C1: once any request got a non-200 status the fetch has returned None, and
\* a returned mapping means every request got 200 and holds exactly one entry
\* per requested series, in request order.
FailFastFetch ==
    /\ (\E k \in 1..Len(responses) : responses[k].status # 200)
          => raw_energy_data.kind = "None"
    /\ raw_energy_data.kind = "dict"
          => /\ \A k \in 1..Len(responses) : responses[k].status = 200
             /\ Len(responses) = N
             /\ Keys(raw_energy_data.data) = series_to_fetch

FailFastFetchWitness ==
    /\ N >= 2
    /\ Len(responses) = 2
    /\ responses[1].status = 200
    /\ responses[2].status = 404
    /\ all_data # <<>>
    /\ all_data[1].data # <<>>
    /\ raw_energy_data.kind = "None"

\* ------------------------------------------------------------------ C2
\* C2: the plot is reached only with a table, a table exists only after the
\* fetch returned a mapping with every series fetched successfully, and after
\* a non-200 status, a malformed envelope or an all-empty result no table is
\* built, the plot is never reached and the run is over or about to end
\* without them.
EveryErrorFatal ==
    /\ plot_calls > 0 => HasTable
    /\ (HasTable \/ pc \in {"process", "plot"})
          => /\ raw_energy_data.kind = "dict"
             /\ Len(raw_energy_data.data) = N
             /\ Len(responses) = N
             /\ \A k \in 1..N : Succeeded(responses[k])
    /\ ( \/ \E k \in 1..Len(responses) : ~Succeeded(responses[k])
         \/ AllEmpty )
          => /\ ~HasTable
             /\ plot_calls = 0
             /\ pc \in {"main", "process", "done", "crashed"}
    /\ (\E k \in 1..Len(responses) : responses[k].status # 200)
          => pc \in {"main", "done"}
    /\ (\E k \in 1..Len(responses) : ~responses[k].envelope)
          => pc = "crashed"

EveryErrorFatalWitness ==
    /\ N >= 2
    /\ Len(responses) = 2
    /\ Succeeded(responses[1])
    /\ all_data[1].data # <<>>
    /\ responses[2].status = 404
    /\ pc = "done"
    /\ ~HasTable
    /\ plot_calls = 0

\* ------------------------------------------------------------------ C3
\* C3: the row labels of a returned table are, as a set, exactly the periods
\* that occur in the records of the input series.
OuterJoinCompleteness ==
    HasTable =>
        {final_dataframe.index[i] : i \in 1..Len(final_dataframe.index)}
      = UNION {{raw_energy_data.data[k].data[m].period :
                    m \in 1..Len(raw_energy_data.data[k].data)} :
               k \in 1..Len(raw_energy_data.data)}

OuterJoinWitness ==
    /\ HasTable
    /\ Len(final_dataframe.columns) = 2
    /\ \E p \in Periods : RecordsAt(final_dataframe.columns[1], p) = {}
                            /\ RecordsAt(final_dataframe.columns[2], p) # {}
    /\ \E p \in Periods : RecordsAt(final_dataframe.columns[1], p) # {}
                            /\ RecordsAt(final_dataframe.columns[2], p) = {}

\* ------------------------------------------------------------------ C4
Filled(g) == IF g = Null THEN Num(0) ELSE g

\* C4 as stated: a cell is 0 where its series has no record for the row's
\* period, and otherwise the rows of a period carry, one each, the generation
\* values of the series' records for that period.
ZeroFillAsStated ==
    HasTable =>
        \A j \in 1..Len(final_dataframe.columns) :
        \A p \in Periods :
            LET c == final_dataframe.columns[j]
            IN IF RecordsAt(c, p) = {}
               THEN \A i \in RowsAt(p) : Cell(i, j) = Num(0)
               ELSE \A v \in CellValues :
                      Cardinality({i \in RowsAt(p) : Cell(i, j) = v})
                    = Cardinality({k \in RecordsAt(c, p) :
                                      DataOf(c)[k].generation = v})

\* C4 (amended): a cell is 0 where its series has no record for the row's
\* period, and otherwise the rows of a period carry, one each, the generation
\* values of the series' records for that period with null replaced by 0.
ZeroFillInvariant ==
    HasTable =>
        \A j \in 1..Len(final_dataframe.columns) :
        \A p \in Periods :
            LET c == final_dataframe.columns[j]
            IN IF RecordsAt(c, p) = {}
               THEN \A i \in RowsAt(p) : Cell(i, j) = Num(0)
               ELSE \A v \in CellValues :
                      Cardinality({i \in RowsAt(p) : Cell(i, j) = v})
                    = Cardinality({k \in RecordsAt(c, p) :
                                      Filled(DataOf(c)[k].generation) = v})

ZeroFillWitness ==
    /\ HasTable
    /\ raw_energy_data.data =
          << [name |-> "Solar",
              data |-> << [period |-> 2020, generation |-> Num(5)],
                          [period |-> 2021, generation |-> Null] >>],
             [name |-> "Wind",
              data |-> << [period |-> 2021, generation |-> Num(3)] >>] >>
    /\ final_dataframe.index = <<2020, 2021>>
    /\ final_dataframe.columns = <<"Solar", "Wind">>
    /\ final_dataframe.rows = << <<Num(5), Num(0)>>, <<Num(0), Num(3)>> >>

\* ------------------------------------------------------------------ C5
\* C5: the row labels of a returned table are strictly ascending, so no
\* period appears twice.
SortInvariant ==
    HasTable =>
        \A a, b \in 1..Len(final_dataframe.index) :
            a < b => final_dataframe.index[a] < final_dataframe.index[b]

\* ------------------------------------------------------------------ C6
\* C6: the columns of a returned table are the series with a non-empty record
\* list, each once, in request order; and the only errors of the alignment
\* are an all-empty input and a repeated period, never an empty series next
\* to a usable one.
ColumnFidelity ==
    /\ HasTable =>
          /\ \A k \in 1..N :
                Cardinality({j \in 1..Len(final_dataframe.columns) :
                                final_dataframe.columns[j] = series_to_fetch[k]})
              = IF DataOf(series_to_fetch[k]) = <<>> THEN 0 ELSE 1
          /\ \A j \in 1..Len(final_dataframe.columns) :
                Contains(series_to_fetch, final_dataframe.columns[j])
          /\ \A a, b \in 1..Len(final_dataframe.columns) :
                a < b => IndexOf(series_to_fetch, final_dataframe.columns[a])
                       < IndexOf(series_to_fetch, final_dataframe.columns[b])
    /\ error = "NoObjectsToConcatenate" => AllEmpty
    /\ error = "ReindexDuplicateLabels"
          => \E k \in 1..N : ~IsUnique([m \in 1..Len(DataOf(series_to_fetch[k])) |->
                                           DataOf(series_to_fetch[k])[m].period])

ColumnFidelityWitness ==
    /\ HasTable
    /\ N = 2
    /\ DataOf(series_to_fetch[1]) = <<>>
    /\ DataOf(series_to_fetch[2]) # <<>>
    /\ final_dataframe.columns = <<series_to_fetch[2]>>

\* ------------------------------------------------------------------ C7
\* C7: when every requested series came back empty, no table of any shape is
\* returned, the plot is never reached, and the alignment ends in an error.
AllEmptyIsNoData ==
    (N >= 1 /\ AllEmpty) =>
        /\ ~HasTable
        /\ plot_calls = 0
        /\ pc \in {"main", "process", "crashed"}
        /\ (pc = "crashed" <=> error = "NoObjectsToConcatenate")

AllEmptyWitness ==
    /\ N >= 1
    /\ AllEmpty
    /\ pc = "crashed"
    /\ error = "NoObjectsToConcatenate"

\* ------------------------------------------------------------------ C8
\* C8: every cell of a returned table is a number.
EveryCellNumeric ==
    HasTable =>
        \A i \in 1..Len(final_dataframe.rows) :
        \A j \in 1..Len(final_dataframe.columns) : Cell(i, j).kind = "num"

\* ------------------------------------------------------------------ C9
\* C9: requests go out in mapping order, one per series; every request but
\* the last got a successful response and was followed by a pause before the
\* next one; and when the fetch is over the number of requests is the
\* position of the first failing series, or N when none failed.
RequestOrdering ==
    /\ Len(requests) <= N
    /\ requests = SubSeq(series_to_fetch, 1, Len(requests))
    /\ Len(responses) = Len(requests)
    /\ \A k \in 1..(Len(requests) - 1) : Succeeded(responses[k])
    /\ pc = "sleep" => sleeps = Len(requests) - 1
    /\ pc = "fetch" => sleeps = Len(requests)
    /\ pc \notin {"fetch", "sleep"}
          => /\ sleeps >= Len(requests) - 1
             /\ IF \E k \in 1..Len(responses) : ~Succeeded(responses[k])
                THEN ~Succeeded(responses[Len(responses)])
                ELSE Len(requests) = N /\ sleeps = N

RequestOrderingWitness ==
    /\ N >= 2
    /\ Len(requests) = 2
    /\ Len(responses) = 2
    /\ Succeeded(responses[1])
    /\ responses[2].status = 500
    /\ sleeps = 1
    /\ pc = "done"

\* ------------------------------------------------------------------ C10
\* C10: with an empty series mapping no request is issued, the fetch returns
\* the empty mapping and not None, and the run ends without processing,
\* plotting or raising.
EmptyMappingSkips ==
    N = 0 =>
        /\ requests = <<>>
        /\ raw_energy_data.kind # "None"
        /\ raw_energy_data.kind = "dict" => raw_energy_data.data = <<>>
        /\ pc \in {"fetch", "main", "done"}
        /\ ~HasTable
        /\ plot_calls = 0
        /\ error = "none"

EmptyMappingWitness ==
    /\ N = 0
    /\ raw_energy_data = [kind |-> "dict", data |-> <<>>]
    /\ pc = "done"

====
